---- MODULE Spec2Model ----
(***************************************************************************)
(* Student/mentor matching (src/match.py).                                 *)
(*                                                                         *)
(* The run of the __main__ block is modelled as a state machine:           *)
(*   preprocess_data -> match_by_age_and_rules (sort, one step per         *)
(*   student, return) -> identification of the unmatched students.         *)
(* A sheet is a sequence of records; the identifier of a record (its       *)
(* DataFrame index label) is its position in the sheet as read.            *)
(***************************************************************************)
EXTENDS Integers, Sequences, FiniteSets

VARIABLES
    students_df,            \* Students sheet, original order
    mentors_df,             \* Mentors sheet, original order
    student_columns,        \* columns present in the Students sheet
    mentor_columns,         \* columns present in the Mentors sheet
    max_mentees_per_mentor, \* capacity handed to match_by_age_and_rules
    pc,                     \* position of the run
    failed_in,              \* where a KeyError was raised ("" when none)
    students_sorted,        \* students in priority order
    mentors_sorted,         \* mentors in priority order
    processed,              \* number of students the outer loop has finished
    mentor_mentee_count,    \* capacity ledger: mentor index -> count
    matches,                \* Match records, in creation order
    unmatched_students_df   \* remainder computed by the main block

vars == <<students_df, mentors_df, student_columns, mentor_columns,
          max_mentees_per_mentor, pc, failed_in, students_sorted,
          mentors_sorted, processed, mentor_mentee_count, matches,
          unmatched_students_df>>

----------------------------------------------------------------------------
(* Bounds of the model *)

NumStudents == 2
NumMentors == 2
MaxAge == 2
MaxCap == 2
MaxMissing == 1

----------------------------------------------------------------------------
(* Values of the prepared fields *)

\* pd.to_numeric(errors='coerce') turns an unparsable age into NaN
NaN == -1

Ages == {NaN} \cup (1..MaxAge)

\* map_title_to_gender returns one of these for a mentor
Genders == {"Male", "Female", "Unknown"}

\* "None" stands for every preference that is neither 'Male' nor 'Female'
Prefs == {"Male", "Female", "None"}

\* assign_campus returns a campus code or 'Unknown'. The engine only tests
\* campuses for equality and against 'Unknown', so one code stands for both.
Campuses == {"1", "Unknown"}

MENTOR_CAPACITY == 11

StudentSheetColumns ==
    {"mr./ms.", "gender_preference", "faculty", "age", "name",
     "student_phone", "student_email", "student_personal_email",
     "disability", "activity_1"}

MentorSheetColumns == {"mr./ms.", "faculty", "age", "name"}

----------------------------------------------------------------------------
(* preprocess_data: the columns it insists on *)

\* lines 16-17, 28, 69-70, 74-75: a KeyError inside preprocess_data
PreprocessRaises(scols, mcols) ==
    \/ "mr./ms." \notin mcols
    \/ "mr./ms." \notin scols
    \/ "faculty" \notin scols
    \/ "age" \notin scols
    \/ "faculty" \notin mcols
    \/ "age" \notin mcols

----------------------------------------------------------------------------
(* sort_values(by='age', ascending=False) *)

Perms(n) == {p \in [1..n -> 1..n] : \A a, b \in 1..n : a # b => p[a] # p[b]}

\* The default sort of sort_values is quicksort with na_position='last':
\* rows of known age come first, by age descending, in an order among equal
\* ages that the sort does not fix; rows of unknown age follow, in their
\* original order.
IsSortOrder(df, p) ==
    \A a, b \in 1..Len(df) :
        a < b =>
            /\ df[p[a]].age = NaN => (df[p[b]].age = NaN /\ p[a] < p[b])
            /\ (df[p[a]].age # NaN /\ df[p[b]].age # NaN)
                   => df[p[a]].age >= df[p[b]].age

SortValues(df) ==
    {[k \in 1..Len(df) |-> df[p[k]]] : p \in {q \in Perms(Len(df)) : IsSortOrder(df, q)}}

----------------------------------------------------------------------------
(* match_by_age_and_rules: the checks made on one (student, mentor) pair *)

\* student.get('gender_preference'): None when the sheet has no such column
GetGenderPreference(student, scols) ==
    IF "gender_preference" \in scols THEN student.gender_preference ELSE "None"

\* Variant: the miss is tested against the wrong gender
MalePreferenceMissSwapped(student_pref, mentor_gender) ==
    student_pref = "Male" /\ mentor_gender # "Female"

is_male_preference_miss(student_pref, mentor_gender) ==
    student_pref = "Male" /\ mentor_gender # "Male"

\* Variant: only a 'Male' mentor misses, so an 'Unknown' one passes
FemalePreferenceMissOnlyMale(student_pref, mentor_gender) ==
    student_pref = "Female" /\ mentor_gender = "Male"

is_female_preference_miss(student_pref, mentor_gender) ==
    student_pref = "Female" /\ mentor_gender # "Female"

\* Rule 1: the pair is skipped on a preference miss
GenderMiss(student_pref, mentor_gender) ==
    \/ is_male_preference_miss(student_pref, mentor_gender)
    \/ is_female_preference_miss(student_pref, mentor_gender)

\* Variant: > in place of >=
AtCapacityStrict(count, mentor_index, cap) == count[mentor_index] > cap

\* Rule 2: the pair is skipped when the mentor's ledger count has reached the capacity
AtCapacity(count, mentor_index, cap) == count[mentor_index] >= cap

\* Variant: equal campuses score even when both are 'Unknown'
ScoreAnyEqualCampus(student, mentor) ==
    IF student.campus = mentor.campus THEN 1 ELSE 0

\* Tie-breaker score
Score(student, mentor) ==
    IF student.campus = mentor.campus /\ student.campus # "Unknown" THEN 1 ELSE 0

\* Variant: >= in place of >, so a later mentor wins a tie
ImprovesOrTies(score, highest_score) == score >= highest_score

\* score > highest_score: only a strictly greater score replaces the running best
Improves(score, highest_score) == score > highest_score

\* The inner loop over mentors_sorted from position k on. best_mentor is the
\* position in mentors_sorted of the running best, 0 for None.
RECURSIVE ScanMentors(_, _, _, _, _, _, _, _)
ScanMentors(student, scols, mentors, count, cap, k, best_mentor, highest_score) ==
    IF k > Len(mentors)
    THEN [best_mentor |-> best_mentor, highest_score |-> highest_score]
    ELSE LET mentor == mentors[k]
             student_pref == GetGenderPreference(student, scols)
             score == Score(student, mentor)
         IN  IF GenderMiss(student_pref, mentor.gender)
             THEN ScanMentors(student, scols, mentors, count, cap, k + 1,
                              best_mentor, highest_score)
             ELSE IF AtCapacity(count, mentor.id, cap)
             THEN ScanMentors(student, scols, mentors, count, cap, k + 1,
                              best_mentor, highest_score)
             ELSE IF Improves(score, highest_score)
             THEN ScanMentors(student, scols, mentors, count, cap, k + 1,
                              k, score)
             ELSE ScanMentors(student, scols, mentors, count, cap, k + 1,
                              best_mentor, highest_score)

\* lines 135-146 read these student columns with [], which raises KeyError
\* on a column the sheet lacks ('age' and 'campus' exist after preprocess_data)
MatchRaises(scols) ==
    ~({"gender_preference", "student_phone", "student_email",
       "student_personal_email", "disability", "activity_1"} \subseteq scols)

\* Variant: the mentor's index is stored as Student_Index
MatchRecordMentorAsStudent(student, mentor, highest_score) ==
    [Student_Index |-> mentor.id,
     Student_Age |-> student.age,
     Student_Gender_Preference |-> student.gender_preference,
     Mentor_Index |-> mentor.id,
     Mentor_Age |-> mentor.age,
     Same_Campus_Match |-> IF highest_score > 0 THEN "Yes" ELSE "No",
     Assigned_Campus |-> student.campus]

\* The dict appended to matches
MatchRecord(student, mentor, highest_score) ==
    [Student_Index |-> student.id,
     Student_Age |-> student.age,
     Student_Gender_Preference |-> student.gender_preference,
     Mentor_Index |-> mentor.id,
     Mentor_Age |-> mentor.age,
     Same_Campus_Match |-> IF highest_score > 0 THEN "Yes" ELSE "No",
     Assigned_Campus |-> student.campus]

\* Variant: = 1 in place of += 1
IncrementSetsOne(count, mentor_index) == [count EXCEPT ![mentor_index] = 1]

\* line 148: mentor_mentee_count[best_mentor.name] += 1
Increment(count, mentor_index) == [count EXCEPT ![mentor_index] = @ + 1]

----------------------------------------------------------------------------
(* __main__: the unmatched students *)

MatchedStudentIndices(ms) == {ms[k].Student_Index : k \in 1..Len(ms)}

\* Variant: the ~ of line 184 is lost
IsMatched(student, ms) == student.id \in MatchedStudentIndices(ms)

\* line 184: ~students_processed.index.isin(matched_student_indices)
IsUnmatched(student, ms) == student.id \notin MatchedStudentIndices(ms)

\* lines 182-186
Unmatched(df, ms) ==
    IF ms # <<>>
    THEN SelectSeq(df, LAMBDA student : IsUnmatched(student, ms))
    ELSE df

\* line 192 selects these columns of a non-empty remainder
ReportRaises(scols) == ~({"gender_preference", "name"} \subseteq scols)

----------------------------------------------------------------------------
(* Inputs *)

StudentSheets(ageCols, prefCols, campusCols) ==
    {[k \in 1..NumStudents |->
         [id |-> k, age |-> a[k], gender_preference |-> p[k], campus |-> c[k]]] :
     a \in ageCols, p \in prefCols, c \in campusCols}

MentorSheets(ageCols, genderCols, campusCols) ==
    {[k \in 1..NumMentors |->
         [id |-> k, age |-> a[k], gender |-> g[k], campus |-> c[k]]] :
     a \in ageCols, g \in genderCols, c \in campusCols}

\* a sheet that lists its rows youngest first
YoungestFirst(n) == [k \in 1..n |-> k]

Faults ==
    ({"Students"} \X StudentSheetColumns) \cup ({"Mentors"} \X MentorSheetColumns)

FaultSets == {F \in SUBSET Faults : Cardinality(F) <= MaxMissing}

Started ==
    /\ pc = "preprocess"
    /\ failed_in = ""
    /\ students_sorted = <<>>
    /\ mentors_sorted = <<>>
    /\ processed = 0
    /\ mentor_mentee_count = [m \in 1..NumMentors |-> 0]
    /\ matches = <<>>
    /\ unmatched_students_df = <<>>

\* Well-formed sheets, every preference, gender and campus, rows youngest first
InitAttributes ==
    /\ students_df \in StudentSheets({YoungestFirst(NumStudents)},
                                     [1..NumStudents -> Prefs],
                                     [1..NumStudents -> Campuses])
    /\ mentors_df \in MentorSheets({YoungestFirst(NumMentors)},
                                   [1..NumMentors -> Genders],
                                   [1..NumMentors -> Campuses])
    /\ max_mentees_per_mentor \in 0..MaxCap

\* Well-formed sheets, every age column
InitAges ==
    /\ students_df \in StudentSheets([1..NumStudents -> Ages],
                                     {[k \in 1..NumStudents |-> "None"]},
                                     {[k \in 1..NumStudents |-> "1"]})
    /\ mentors_df \in MentorSheets([1..NumMentors -> Ages],
                                   {[k \in 1..NumMentors |-> "Male"]},
                                   {[k \in 1..NumMentors |-> "1"]})
    /\ max_mentees_per_mentor \in 0..MaxCap

Init ==
    /\ InitAttributes \/ InitAges
    /\ student_columns = StudentSheetColumns
    /\ mentor_columns = MentorSheetColumns
    /\ Started

\* The __main__ block on sheets that may lack columns
InitRun ==
    /\ students_df \in StudentSheets({YoungestFirst(NumStudents)},
                                     [1..NumStudents -> Prefs],
                                     {[k \in 1..NumStudents |-> "1"]})
    /\ mentors_df \in MentorSheets({YoungestFirst(NumMentors)},
                                   {[k \in 1..NumMentors |-> "Male"]},
                                   {[k \in 1..NumMentors |-> "1"]})
    /\ max_mentees_per_mentor = MENTOR_CAPACITY
    /\ \E F \in FaultSets :
          /\ student_columns = {c \in StudentSheetColumns : <<"Students", c>> \notin F}
          /\ mentor_columns = {c \in MentorSheetColumns : <<"Mentors", c>> \notin F}
    /\ Started

----------------------------------------------------------------------------
(* Steps of the run *)

\* line 164
Preprocess ==
    /\ pc = "preprocess"
    /\ IF PreprocessRaises(student_columns, mentor_columns)
       THEN pc' = "error" /\ failed_in' = "preprocess_data"
       ELSE pc' = "sort" /\ failed_in' = failed_in
    /\ UNCHANGED <<students_df, mentors_df, student_columns, mentor_columns,
                   max_mentees_per_mentor, students_sorted, mentors_sorted,
                   processed, mentor_mentee_count, matches, unmatched_students_df>>

\* lines 95-99
Start ==
    /\ pc = "sort"
    /\ students_sorted' \in SortValues(students_df)
    /\ mentors_sorted' \in SortValues(mentors_df)
    /\ mentor_mentee_count' = [m \in 1..Len(mentors_df) |-> 0]
    /\ matches' = <<>>
    /\ processed' = 0
    /\ pc' = "loop"
    /\ UNCHANGED <<students_df, mentors_df, student_columns, mentor_columns,
                   max_mentees_per_mentor, failed_in, unmatched_students_df>>

\* lines 101-148: one iteration of the loop over students_sorted
MatchStudent ==
    /\ pc = "loop"
    /\ processed < Len(students_sorted)
    /\ LET student == students_sorted[processed + 1]
           found == ScanMentors(student, student_columns, mentors_sorted,
                                mentor_mentee_count, max_mentees_per_mentor,
                                1, 0, -1)
       IN  IF found.best_mentor = 0
           THEN /\ processed' = processed + 1
                /\ UNCHANGED <<matches, mentor_mentee_count, pc, failed_in>>
           ELSE IF MatchRaises(student_columns)
           THEN /\ pc' = "error"
                /\ failed_in' = "match_by_age_and_rules"
                /\ UNCHANGED <<matches, mentor_mentee_count, processed>>
           ELSE LET best_mentor == mentors_sorted[found.best_mentor]
                IN  /\ matches' = Append(matches,
                                         MatchRecord(student, best_mentor,
                                                     found.highest_score))
                    /\ mentor_mentee_count' =
                           Increment(mentor_mentee_count, best_mentor.id)
                    /\ processed' = processed + 1
                    /\ UNCHANGED <<pc, failed_in>>
    /\ UNCHANGED <<students_df, mentors_df, student_columns, mentor_columns,
                   max_mentees_per_mentor, students_sorted, mentors_sorted,
                   unmatched_students_df>>

\* line 150
Return ==
    /\ pc = "loop"
    /\ processed = Len(students_sorted)
    /\ pc' = "report"
    /\ UNCHANGED <<students_df, mentors_df, student_columns, mentor_columns,
                   max_mentees_per_mentor, failed_in, students_sorted,
                   mentors_sorted, processed, mentor_mentee_count, matches,
                   unmatched_students_df>>

\* lines 181-194
IdentifyUnmatched ==
    /\ pc = "report"
    /\ unmatched_students_df' = Unmatched(students_df, matches)
    /\ IF unmatched_students_df' # <<>> /\ ReportRaises(student_columns)
       THEN pc' = "error" /\ failed_in' = "report"
       ELSE pc' = "done" /\ failed_in' = failed_in
    /\ UNCHANGED <<students_df, mentors_df, student_columns, mentor_columns,
                   max_mentees_per_mentor, students_sorted, mentors_sorted,
                   processed, mentor_mentee_count, matches>>

Next ==
    \/ Preprocess
    \/ Start
    \/ MatchStudent
    \/ Return
    \/ IdentifyUnmatched

\* Runs on sheets that carry every column
Spec == Init /\ [][Next]_vars

\* Runs of the __main__ block on sheets that may lack columns
SpecRun == InitRun /\ [][Next]_vars

----------------------------------------------------------------------------
(* Properties *)

Range(f) == {f[k] : k \in DOMAIN f}

MentorsOf(ms, m) == {k \in 1..Len(ms) : ms[k].Mentor_Index = m}

\* The campus score and the two hard filters, as the claims state them
CampusScore(student, mentor) ==
    IF student.campus = mentor.campus /\ student.campus # "Unknown" THEN 1 ELSE 0

PassesGender(student, mentor) ==
    /\ student.gender_preference = "Male" => mentor.gender = "Male"
    /\ student.gender_preference = "Female" => mentor.gender = "Female"

\* positions in mentors_sorted of the mentors that pass both filters for
\* the student under the ledger count
EligibleMentors(student, count) ==
    {k \in 1..Len(mentors_sorted) :
        /\ PassesGender(student, mentors_sorted[k])
        /\ count[mentors_sorted[k].id] < max_mentees_per_mentor}

\* C1: at every point of the run, every mentor is referenced by at most
\* max_mentees_per_mentor Match records (none at all when the capacity is 0).
C1_CapacityInvariant ==
    \A m \in 1..Len(mentors_df) :
        Cardinality(MentorsOf(matches, m)) <= max_mentees_per_mentor

\* A mentor is full and a student it would have suited was left unmatched.
C1_Witness ==
    /\ pc = "report"
    /\ max_mentees_per_mentor >= 1
    /\ \E m \in 1..Len(mentors_df) :
          /\ Cardinality(MentorsOf(matches, m)) = max_mentees_per_mentor
          /\ \E k \in 1..Len(students_df) :
                /\ \A r \in Range(matches) : r.Student_Index # k
                /\ PassesGender(students_df[k], mentors_df[m])

\* C2: in every Match record whose student prefers 'Male' or 'Female', the
\* mentor's gender is that preference; a mentor of gender 'Unknown' is never
\* matched to such a student.
C2_GenderRule ==
    \A r \in Range(matches) :
        LET pref == students_df[r.Student_Index].gender_preference
        IN  pref \in {"Male", "Female"} => mentors_df[r.Mentor_Index].gender = pref

\* A student preferring 'Female' was matched past a first-priority mentor of
\* gender 'Unknown'.
C2_Witness ==
    /\ Len(mentors_sorted) >= 2
    /\ mentors_sorted[1].gender = "Unknown"
    /\ \E r \in Range(matches) :
          /\ students_df[r.Student_Index].gender_preference = "Female"
          /\ r.Mentor_Index = mentors_sorted[2].id

\* p orders df by age descending, unknown ages last, equal ages (and unknown
\* ages) in their original relative order
IsStableOrder(df, p) ==
    \A a, b \in 1..Len(df) :
        a < b =>
            /\ df[p[a]].age = NaN => df[p[b]].age = NaN
            /\ (df[p[a]].age # NaN /\ df[p[b]].age # NaN)
                   => df[p[a]].age >= df[p[b]].age
            /\ df[p[a]].age = df[p[b]].age => p[a] < p[b]

IsStableSort(df, sorted) ==
    \E p \in Perms(Len(df)) :
        IsStableOrder(df, p) /\ sorted = [k \in 1..Len(df) |-> df[p[k]]]

\* C3: once sorted, students and mentors are in age-descending order with
\* unknown ages last, and records of equal (or unknown) age keep their
\* original relative order.
C3_StableSort ==
    pc \in {"loop", "report", "done"} =>
        /\ IsStableSort(students_df, students_sorted)
        /\ IsStableSort(mentors_df, mentors_sorted)

\* C4: the mentor of a new Match record is, among the mentors passing both
\* filters when the student is processed, one of highest campus score, and
\* the first of those in mentor priority order.
C4_BestFirst ==
    [][(pc = "loop" /\ Len(matches') = Len(matches) + 1) =>
        LET student == students_sorted[processed + 1]
            E == EligibleMentors(student, mentor_mentee_count)
            new == matches'[Len(matches')]
        IN  \E k \in E :
               /\ mentors_sorted[k].id = new.Mentor_Index
               /\ \A j \in E :
                     /\ CampusScore(student, mentors_sorted[j])
                            <= CampusScore(student, mentors_sorted[k])
                     /\ CampusScore(student, mentors_sorted[j])
                            = CampusScore(student, mentors_sorted[k]) => k <= j
      ]_vars

\* The first student had two eligible mentors of equal positive score and
\* got the first of them.
C4_Witness ==
    /\ Len(matches) >= 1
    /\ Len(mentors_sorted) >= 2
    /\ max_mentees_per_mentor >= 1
    /\ LET student == students_sorted[1]
       IN  /\ matches[1].Student_Index = student.id
           /\ PassesGender(student, mentors_sorted[1])
           /\ PassesGender(student, mentors_sorted[2])
           /\ CampusScore(student, mentors_sorted[1]) = 1
           /\ CampusScore(student, mentors_sorted[2]) = 1
           /\ matches[1].Mentor_Index = mentors_sorted[1].id

PriorityCase ==
    /\ pc \in {"loop", "report", "done"}
    /\ processed >= 1
    /\ max_mentees_per_mentor >= Len(students_df)
    /\ \A k \in 1..Len(students_df) :
          students_df[k].gender_preference \notin {"Male", "Female"}

FirstStudentMatchedTo(k) ==
    \E r \in Range(matches) :
        /\ r.Student_Index = students_sorted[1].id
        /\ r.Mentor_Index = mentors_sorted[k].id

Min(S) == CHOOSE x \in S : \A y \in S : x <= y

\* C5 as stated: with capacity for every student and no preference set, the
\* first student in priority order is matched to the first mentor in
\* priority order whose campus equals the student's campus, if there is
\* one, and to the first mentor otherwise.
C5_SameCampusFirst ==
    PriorityCase =>
        LET same == {k \in 1..Len(mentors_sorted) :
                        mentors_sorted[k].campus = students_sorted[1].campus}
        IN  FirstStudentMatchedTo(IF same # {} THEN Min(same) ELSE 1)

\* C5 amended: the campus must also be a known one, not 'Unknown'.
C5_KnownCampusFirst ==
    PriorityCase =>
        LET same == {k \in 1..Len(mentors_sorted) :
                        /\ mentors_sorted[k].campus = students_sorted[1].campus
                        /\ students_sorted[1].campus # "Unknown"}
        IN  FirstStudentMatchedTo(IF same # {} THEN Min(same) ELSE 1)

\* The first student shares a known campus with the second mentor only and
\* was matched to it.
C5_Witness ==
    /\ PriorityCase
    /\ Len(mentors_sorted) >= 2
    /\ students_sorted[1].campus = "1"
    /\ mentors_sorted[1].campus = "Unknown"
    /\ mentors_sorted[2].campus = "1"
    /\ FirstStudentMatchedTo(2)

\* C6: no student identifier is the Student_Index of two Match records.
C6_AtMostOneMatch ==
    \A a, b \in 1..Len(matches) :
        a # b => matches[a].Student_Index # matches[b].Student_Index

\* Two students were matched, both to the same mentor.
C6_Witness ==
    /\ Len(matches) >= 2
    /\ matches[1].Mentor_Index = matches[2].Mentor_Index

\* C7: when the run has completed, the matched and the unmatched student
\* identifiers are disjoint and together are all input student identifiers.
C7_UnmatchedCompleteness ==
    pc = "done" =>
        LET matched == {r.Student_Index : r \in Range(matches)}
            unmatched == {s.id : s \in Range(unmatched_students_df)}
        IN  /\ matched \cap unmatched = {}
            /\ matched \cup unmatched = {s.id : s \in Range(students_df)}

\* A completed run with both matched and unmatched students.
C7_Witness ==
    /\ pc = "done"
    /\ matches # <<>>
    /\ unmatched_students_df # <<>>

\* a column behind a field the engine reads is missing from its sheet
EngineFieldMissing ==
    \/ ~({"age", "gender_preference", "faculty", "student_phone",
          "student_email", "student_personal_email", "disability",
          "activity_1"} \subseteq student_columns)
    \/ ~({"age", "mr./ms.", "faculty"} \subseteq mentor_columns)

\* C8: when a field the engine requires is missing, the run fails inside
\* preprocess_data, before match_by_age_and_rules starts, and
\* match_by_age_and_rules never fails.
C8_FailsInPreprocess ==
    /\ (EngineFieldMissing /\ pc # "preprocess")
           => (pc = "error" /\ failed_in = "preprocess_data")
    /\ failed_in # "match_by_age_and_rules"

\* C9: a processed student gets no Match record exactly when no mentor
\* passes both filters at that moment; otherwise exactly one record is
\* added, for that student and a mentor passing both filters, and exactly
\* that mentor's ledger count grows by one.
C9_MatchedIffEligible ==
    [][(pc = "loop" /\ processed' = processed + 1) =>
        LET student == students_sorted[processed + 1]
            E == EligibleMentors(student, mentor_mentee_count)
        IN  /\ (matches' = matches) <=> (E = {})
            /\ E = {} => mentor_mentee_count' = mentor_mentee_count
            /\ E # {} =>
                  /\ Len(matches') = Len(matches) + 1
                  /\ SubSeq(matches', 1, Len(matches)) = matches
                  /\ matches'[Len(matches')].Student_Index = student.id
                  /\ \E k \in E :
                        /\ matches'[Len(matches')].Mentor_Index = mentors_sorted[k].id
                        /\ mentor_mentee_count' =
                               [m \in DOMAIN mentor_mentee_count |->
                                   IF m = mentors_sorted[k].id
                                   THEN mentor_mentee_count[m] + 1
                                   ELSE mentor_mentee_count[m]]
      ]_vars

\* The second student was left unmatched with one mentor full and the
\* other of the wrong gender, after the first student was matched.
C9_Witness ==
    /\ processed = 2
    /\ Len(matches) = 1
    /\ matches[1].Student_Index = students_sorted[1].id
    /\ \E a, b \in 1..Len(mentors_sorted) :
          /\ a # b
          /\ mentor_mentee_count[mentors_sorted[a].id] = max_mentees_per_mentor
          /\ PassesGender(students_sorted[2], mentors_sorted[a])
          /\ mentor_mentee_count[mentors_sorted[b].id] = 0
          /\ ~PassesGender(students_sorted[2], mentors_sorted[b])

\* C10: when a student processed earlier is unmatched and one processed
\* later is matched, the later one's mentor fails the earlier one's gender
\* filter.
C10_NoPassingOver ==
    \A a, b \in 1..processed :
        a < b =>
            \A r \in Range(matches) :
                (/\ r.Student_Index = students_sorted[b].id
                 /\ \A q \in Range(matches) : q.Student_Index # students_sorted[a].id)
                    => ~PassesGender(students_sorted[a], mentors_df[r.Mentor_Index])

\* With room left, the first student was left unmatched and the second
\* was matched.
C10_Witness ==
    /\ processed >= 2
    /\ max_mentees_per_mentor >= 1
    /\ \A q \in Range(matches) : q.Student_Index # students_sorted[1].id
    /\ \E r \in Range(matches) : r.Student_Index = students_sorted[2].id

====
